---- MODULE Spec2Model ----
(***************************************************************************)
(* Model of bee_py's Bee client (src/src/bee_py/bee.py) over a transport    *)
(* store of single-owner chunks: feed readers, the retrievability check of  *)
(* Bee.is_feed_retrievable, the size checks of Bee.upload_chunk, the       *)
(* option checks of Bee.upload_data, signer resolution with the SOC writer *)
(* and the JSON feed, tag uids, the connection check and the pss calls.     *)
(*                                                                         *)
(* The modules bee_py.feed.*, bee_py.chunk.*, bee_py.modules.* and         *)
(* bee_py.types.type are imported by bee.py but are not part of the        *)
(* sources at hand; the parts of them the Bee methods call are modelled    *)
(* from the specification text (sections 3, 4 and 6) and are marked "spec" *)
(* in the comments below.                                                   *)
(***************************************************************************)
EXTENDS Integers, Sequences, FiniteSets, TLC

VARIABLES
    store,      \* transport store: SOC/chunk address -> stored bytes
    tags,       \* the uids of the tags that exist on the node
    last,       \* the most recent call: operation, arguments, outcome
    pss,        \* the pss subscription: position of pss_subscribe, websocket
    scan        \* a prefix scan whose existence checks run as parallel tasks

vars == <<store, tags, last, pss, scan>>

(***************************************************************************)
(* Bounds of the model.                                                     *)
(***************************************************************************)
MaxIndex == 2       \* sequence indices 0..MaxIndex are published / asked for
MaxChunks == 3      \* capacity of the transport store (put fails beyond it)
MaxMessages == 2    \* pss messages handed to the handler of a subscription
MaxCancels == 2     \* calls of cancel on a subscription

(***************************************************************************)
(* Program constants (bee_py.types.type, imported at bee.py:29-30;         *)
(* spec section 3: 8-byte span, payload of at most 4096 bytes).            *)
(***************************************************************************)
SPAN_SIZE == 8
CHUNK_SIZE == 4096

(***************************************************************************)
(* Input domains.                                                           *)
(***************************************************************************)
Owners == {"o1", "o2"}                  \* 20-byte ethereum addresses
Topics == {"t1"}                        \* 32-byte topics
Payloads == {"a", "b"}                  \* feed update payloads
FeedTypes == {"sequence", "epoch"}      \* FeedType.SEQUENCE, FeedType.EPOCH
SEQUENCE == "sequence"
EPOCH == "epoch"
BuiltinType == "builtin_type"           \* the Python builtin `type`
NoIndex == -1                           \* index argument None
SeqIndices == 0..MaxIndex
EpochIndices == {<<0, 0>>, <<1, 0>>}    \* (base, level)

\* lengths of the data handed to upload_chunk, around both limits
ChunkLengths == {0, SPAN_SIZE - 1, SPAN_SIZE, SPAN_SIZE + 1,
                 CHUNK_SIZE + SPAN_SIZE - 1, CHUNK_SIZE + SPAN_SIZE,
                 CHUNK_SIZE + SPAN_SIZE + 1}
\* the options argument of upload_chunk: None, or the integer 1
UploadOptionArgs == {"None", "int"}

\* Values handed over as options: None, 1, True, [], "string", a function,
\* or a dict of which each of the keys timeout, retry and tag is absent or
\* an integer
Absent == -1000
OptionKinds == {"None", "int", "bool", "list", "str", "callable", "dict"}
OptionValue(kind, timeout, retry, tag) ==
    [kind |-> kind, timeout |-> timeout, retry |-> retry, tag |-> tag]
NoOptions == OptionValue("None", Absent, Absent, Absent)
RequestOptionArgs ==
    {OptionValue(k, Absent, Absent, Absent) : k \in OptionKinds \ {"dict"}}
        \cup {OptionValue("dict", t, r, Absent) : t \in {Absent, -1, 5}, r \in {Absent, -1, 3}}
UploadDataOptionArgs ==
    {OptionValue(k, Absent, Absent, Absent) : k \in OptionKinds \ {"dict"}}
        \cup {OptionValue("dict", Absent, Absent, g) : g \in {Absent, -1, 0, 5}}

\* The uids of tags, and the values handed to delete_tag as uid: None, a Tag
\* object, an integer, or a string of characters
TagUids == {0, 5, 12}
TagUidArg(kind, value, chars) == [kind |-> kind, value |-> value, chars |-> chars]
TagUidArgs ==
    {TagUidArg("None", 0, <<>>)}
        \cup {TagUidArg("Tag", n, <<>>) : n \in TagUids}
        \cup {TagUidArg("int", n, <<>>) : n \in TagUids \cup {-1, 1}}
        \cup {TagUidArg("str", 0, c) :
                    c \in {<<"0">>, <<"5">>, <<"1", "2">>, <<"-", "1">>, <<"a">>,
                           <<"1", "a">>, <<>>}}

\* what the node answers to the connection check
NodeAnswers == {"ok", "HTTPError", "ConnectionError"}

\* Python truth value: None, [] and the empty dict are false
Truthy(v) ==
    IF v.kind = "dict"
    THEN v.timeout # Absent \/ v.retry # Absent \/ v.tag # Absent
    ELSE v.kind \notin {"None", "list"}
\* truth value of a field of a dict: an absent key reads None, and 0 is false
Set(x) == x # Absent /\ x # 0

\* A signer: private key and the address derived from its public key.
SignerOf(o) == [key |-> <<"key", o>>, address |-> o]
Signers == {SignerOf(o) : o \in Owners}
Writers == {SignerOf("o1")}             \* the signers that publish feed updates
AddressOfKey(k) == k[2]
OtherOwner(o) == CHOOSE x \in Owners : x # o

\* Signer arguments: no signer (None, or a Bee constructed without the signer
\* option) is NoSigner
NoSigner == [key |-> <<"key", "none">>, address |-> "none"]
SignerArgs == Signers \cup {NoSigner}

\* Owner and topic arguments come as hex strings or raw bytes of one value.
OwnerArgs == {[form |-> "hex", a |-> o] : o \in Owners}
TopicArgs == {[form |-> "hex", t |-> t] : t \in Topics}

(***************************************************************************)
(* spec 4.4 / 6: Feed Index Codec.                                          *)
(***************************************************************************)
RECURSIVE LittleEndian(_, _)
\* variant: the n bytes least significant first
LittleEndian(x, n) ==
    IF n = 0 THEN <<>> ELSE <<x % 256>> \o LittleEndian(x \div 256, n - 1)

RECURSIVE BigEndian(_, _)
\* n-byte big-endian encoding of the unsigned integer x
BigEndian(x, n) ==
    IF n = 0 THEN <<>> ELSE Append(BigEndian(x \div 256, n - 1), x % 256)

Zeros(n) == [k \in 1..n |-> 0]

\* sequence: 8-byte big-endian value left-padded with zeros to 32 bytes
EncodeSequenceIndex(i) == Zeros(24) \o BigEndian(i, 8)

\* epoch: base (8 bytes, big-endian) || level (1 byte) || zero padding (23)
EncodeEpochIndex(e) == BigEndian(e[1], 8) \o <<e[2] % 256>> \o Zeros(23)

\* the 2n lowercase hex characters of n bytes
HexDigits == <<"0", "1", "2", "3", "4", "5", "6", "7",
               "8", "9", "a", "b", "c", "d", "e", "f">>
RECURSIVE Hex(_)
Hex(bytes) ==
    IF bytes = <<>> THEN ""
    ELSE HexDigits[(Head(bytes) \div 16) + 1] \o HexDigits[(Head(bytes) % 16) + 1]
            \o Hex(Tail(bytes))

\* the codec is selected by the feed type tag; any other tag is unsupported
IsFeedType(ft) == ft \in FeedTypes
EncodeIndex(ft, index) ==
    IF ft = SEQUENCE THEN EncodeSequenceIndex(index) ELSE EncodeEpochIndex(index)

IndicesOf(ft) == IF ft = SEQUENCE THEN SeqIndices ELSE EpochIndices

\* Unsigned 64-bit values beyond the integers at hand are written as four
\* 16-bit limbs, most significant first.
U16 == 65536
Limbs(i) == <<0, 0, i \div U16, i % U16>>      \* of an integer below 2^31
LimbSamples == {0, 255, 256, U16 - 1}
Words == {<<a, b, c, d>> : a \in LimbSamples, b \in LimbSamples,
                           c \in LimbSamples, d \in LimbSamples}
EpochWords == {<<w, l>> : w \in {x \in Words : \A k \in 1..4 : x[k] \in {0, U16 - 1}},
                          l \in {0, 1, 255}}
WordsOf(ft) == IF ft = SEQUENCE THEN Words ELSE EpochWords

RECURSIVE FromBigEndian(_)
\* the unsigned integer of big-endian bytes
FromBigEndian(bytes) ==
    IF bytes = <<>> THEN 0
    ELSE FromBigEndian(SubSeq(bytes, 1, Len(bytes) - 1)) * 256 + bytes[Len(bytes)]

\* 8 bytes, big-endian, of a 64-bit word and back
EncodeWord(w) ==
    BigEndian(w[1], 2) \o BigEndian(w[2], 2) \o BigEndian(w[3], 2) \o BigEndian(w[4], 2)
DecodeWord(bytes) ==
    <<FromBigEndian(SubSeq(bytes, 1, 2)), FromBigEndian(SubSeq(bytes, 3, 4)),
      FromBigEndian(SubSeq(bytes, 5, 6)), FromBigEndian(SubSeq(bytes, 7, 8))>>

\* the codec on 64-bit words: sequence index w, epoch index <<base, level>>
EncodeIndexWord(ft, x) ==
    IF ft = SEQUENCE THEN Zeros(24) \o EncodeWord(x)
    ELSE EncodeWord(x[1]) \o <<x[2] % 256>> \o Zeros(23)
DecodeIndexWord(ft, bytes) ==
    IF ft = SEQUENCE THEN DecodeWord(SubSeq(bytes, 25, 32))
    ELSE <<DecodeWord(SubSeq(bytes, 1, 8)), bytes[9]>>

(***************************************************************************)
(* spec 3: identifiers and addresses.  A hash is modelled as an injective  *)
(* constructor tagged with the hashed fields.                               *)
(***************************************************************************)
\* the encoded indices in hex, computed once: sequence indices up to the
\* first one past MaxIndex (the last probe of a lookup) and the epochs
EncodedIndexHex ==
    [ft \in FeedTypes |->
        [i \in (IF ft = SEQUENCE THEN 0..(MaxIndex + 1) ELSE EpochIndices) |->
            Hex(EncodeIndex(ft, i))]]

\* Feed Identifier = hash(index-bytes || topic); the index bytes in hex
FeedIdentifier(indexHex, topic) ==
    [h |-> "identifier", index |-> indexHex, topic |-> topic]

\* SOC Address = hash(identifier || owner)
SOCAddress(identifier, owner) ==
    [h |-> "soc", identifier |-> identifier, owner |-> owner]

\* spec 4.1: content address of a chunk (BMT root with the span mixed in)
ChunkAddress(payload) == [h |-> "bmt", data |-> payload]

\* address of the feed update (owner, topic, index) of a feed of type ft
FeedUpdateAddress(ft, owner, topic, index) ==
    SOCAddress(FeedIdentifier(EncodedIndexHex[ft][index], topic), owner)

(***************************************************************************)
(* spec 4.2 / 4.3: Signer and SOC codec.                                    *)
(***************************************************************************)
Sign(signer, digest) == [key |-> signer.key, digest |-> digest]

\* variant: recovery does not look at the digest
RecoverAddress_ignores_digest(digest, signature) == AddressOfKey(signature.key)

\* recovery yields the signer's address for the signed digest and an
\* unrelated address for any other digest
RecoverAddress(digest, signature) ==
    IF signature.digest = digest THEN AddressOfKey(signature.key) ELSE "nobody"

SOCDigest(identifier, wrapped) == <<identifier, wrapped>>

\* build(identifier, chunk_address, signer) with the wrapped chunk's bytes
BuildSOC(identifier, payload, signer) ==
    [signature |-> Sign(signer, SOCDigest(identifier, ChunkAddress(payload))),
     identifier |-> identifier,
     wrapped |-> ChunkAddress(payload),
     chunk |-> payload]

\* verify(signed_soc): the recovered owner must reproduce the claimed address
RecoveredOwner(soc) ==
    RecoverAddress(SOCDigest(soc.identifier, soc.wrapped), soc.signature)
VerifySOC(soc, address) == SOCAddress(soc.identifier, RecoveredOwner(soc)) = address

(***************************************************************************)
(* spec 6: the transport collaborator.                                      *)
(***************************************************************************)
Exists(st, address) == address \in DOMAIN st
Put(st, address, bytes) == [a \in DOMAIN st \cup {address} |->
                                IF a = address THEN bytes ELSE st[a]]
Delete(st, address) == [a \in DOMAIN st \ {address} |-> st[a]]
EmptyStore == [a \in {} |-> 0]

(***************************************************************************)
(* Outcome of a call: the value returned or the error raised, and the      *)
(* addresses the call asked the transport about, in order.                  *)
(***************************************************************************)
Res(status, index, payload, queries) ==
    [status |-> status, index |-> index, payload |-> payload, queries |-> queries]
Raise(error, queries) == Res(error, NoIndex, "", queries)

\* bee.py:848-849: BeeError("Only Sequence type of Feeds is supported ...")
UnsupportedOperationError == "BeeError: Only Sequence type of Feeds is supported"
Errors == {"ChunkNotFoundError", "SignatureMismatchError", "UnsupportedFeedTypeError",
           "TransportError", "AttributeError", "TypeError", "BeeArgumentError",
           "ValueError", "ValidationError", "HTTPError", "ConnectionError", "BeeError",
           UnsupportedOperationError}
Raised(res) == res.status \in Errors

(***************************************************************************)
(* Canonical forms of owner and topic arguments (bee_py.utils.eth,         *)
(* bee_py.feed.topic: spec 3, 6).                                           *)
(***************************************************************************)
make_eth_address(owner) == [form |-> "bytes", a |-> owner.a]
make_hex_eth_address(owner) == [form |-> "hex", a |-> owner.a]
make_topic(topic) == [form |-> "hex", t |-> topic.t]

(***************************************************************************)
(* spec 4.5: Feed Reader (bee_py.feed.feed.make_feed_reader).               *)
(***************************************************************************)
\* _make_feed_reader(request_options, type, topic, owner)
FeedReader(feed_type, topic, owner) ==
    [type |-> feed_type, topic |-> topic, owner |-> owner]

ReaderAddress(reader, index) ==
    FeedUpdateAddress(reader.type, reader.owner.a, reader.topic.t, index)

\* fetch_at: deterministic single fetch
fetch_at(st, reader, index) ==
    IF ~IsFeedType(reader.type) THEN Raise("UnsupportedFeedTypeError", <<>>)
    ELSE LET address == ReaderAddress(reader, index) IN
         IF ~Exists(st, address) THEN Raise("ChunkNotFoundError", <<address>>)
         ELSE IF ~VerifySOC(st[address], address)
              THEN Raise("SignatureMismatchError", <<address>>)
              ELSE Res("ok", index, st[address].chunk, <<address>>)

Resolves(st, reader, index) == fetch_at(st, reader, index).status = "ok"

RECURSIVE ProbeFrom(_, _, _)
\* the first index at or after i that does not resolve (linear probing)
ProbeFrom(st, reader, i) ==
    IF Resolves(st, reader, i) THEN ProbeFrom(st, reader, i + 1) ELSE i

\* fetch_latest of a sequence feed: probe successive indices from 0; a
\* missing chunk at index i ends the search.  (The lookup of epoch feeds is
\* not described and no operation of the model asks for it.)
fetch_latest(st, reader) ==
    IF ~IsFeedType(reader.type) THEN Raise("UnsupportedFeedTypeError", <<>>)
    ELSE LET next == ProbeFrom(st, reader, 0)
             probed == [i \in 1..(next + 1) |-> ReaderAddress(reader, i - 1)]
         IN IF next = 0
            THEN Raise(fetch_at(st, reader, 0).status, probed)
            ELSE Res("ok", next - 1, fetch_at(st, reader, next - 1).payload, probed)

\* FeedReader.download(options): the latest update when no index is given;
\* options is <<>> or <<index>>
ReaderDownload(st, reader, options) ==
    IF Len(options) = 0 THEN fetch_latest(st, reader)
    ELSE fetch_at(st, reader, options[1])

(***************************************************************************)
(* spec 4.6: bee_py.feed.retrievable.                                       *)
(***************************************************************************)
RECURSIVE FirstMissing(_, _, _, _, _)
\* the first index in i..target whose chunk does not exist, else target + 1
FirstMissing(st, owner, topic, i, target) ==
    IF i > target THEN i
    ELSE IF Exists(st, FeedUpdateAddress(SEQUENCE, owner.a, topic.t, i))
         THEN FirstMissing(st, owner, topic, i + 1, target)
         ELSE i

\* variant: every index 0..index is asked for, whatever the answers
are_all_sequential_feeds_update_retrievable_full_scan(st, owner, topic, index) ==
    LET miss == FirstMissing(st, owner, topic, 0, index)
        queries == [i \in 1..(index + 1) |->
                        FeedUpdateAddress(SEQUENCE, owner.a, topic.t, i - 1)]
    IN Res(IF miss > index THEN "True" ELSE "False", NoIndex, "", queries)

\* existence of every index 0..index, in order, stopping at the first failure
are_all_sequential_feeds_update_retrievable(st, owner, topic, index) ==
    LET miss == FirstMissing(st, owner, topic, 0, index)
        asked == IF miss > index THEN index ELSE miss
        queries == [i \in 1..(asked + 1) |->
                        FeedUpdateAddress(SEQUENCE, owner.a, topic.t, i - 1)]
    IN Res(IF miss > index THEN "True" ELSE "False", NoIndex, "", queries)

(***************************************************************************)
(* spec 4.5: Feed Writer (bee_py.feed.feed.make_feed_writer): publish.      *)
(* put stores the bytes at a free address, acknowledges bytes that are     *)
(* already there, and fails for an occupied address or a full store.       *)
(***************************************************************************)
StoreFull(st) == Cardinality(DOMAIN st) >= MaxChunks
PutOutcome(st, address, bytes) ==
    IF Exists(st, address) THEN (IF st[address] = bytes THEN "ack" ELSE "TransportError")
    ELSE IF StoreFull(st) THEN "TransportError" ELSE "ack"
\* variant: put replaces the bytes of an occupied address
PutStore_overwrite(st, address, bytes) ==
    IF ~Exists(st, address) /\ StoreFull(st) THEN st ELSE Put(st, address, bytes)

PutStore(st, address, bytes) ==
    IF PutOutcome(st, address, bytes) = "ack" THEN Put(st, address, bytes) ELSE st

\* publish(owner, topic, type, index, payload, signer): owner = signer.address
PublishedSOC(ft, topic, index, payload, signer) ==
    BuildSOC(FeedIdentifier(EncodedIndexHex[ft][index], topic), payload, signer)
PublishAddress(ft, topic, index, signer) ==
    FeedUpdateAddress(ft, signer.address, topic, index)

(***************************************************************************)
(* spec 4.3 / 6: bee_py.chunk.soc, single-owner chunks over the transport. *)
(***************************************************************************)
\* identifiers of the single-owner chunks that are written and read
SocIdentifiers == {FeedIdentifier(EncodedIndexHex[SEQUENCE][i], "t1") : i \in {0, 1}}

\* upload_single_owner_chunk_data(request_options, signer, batch, identifier,
\* data): build the signed SOC and put it at hash(identifier || owner)
upload_single_owner_chunk_data(st, signer, identifier, payload) ==
    LET address == SOCAddress(identifier, signer.address)
        soc == BuildSOC(identifier, payload, signer)
    IN [store |-> PutStore(st, address, soc),
        res |-> IF PutOutcome(st, address, soc) = "ack"
                THEN Res("ok", NoIndex, payload, <<address>>)
                ELSE Raise("TransportError", <<address>>)]

\* download_single_owner_chunk(request_options, owner, identifier): get the
\* bytes at hash(identifier || owner) and verify them
download_single_owner_chunk(st, owner, identifier) ==
    LET address == SOCAddress(identifier, owner) IN
    IF ~Exists(st, address) THEN Raise("ChunkNotFoundError", <<address>>)
    ELSE IF ~VerifySOC(st[address], address)
         THEN Raise("SignatureMismatchError", <<address>>)
         ELSE [status |-> "ok", index |-> NoIndex, payload |-> st[address].chunk,
               queries |-> <<address>>, owner |-> RecoveredOwner(st[address])]

(***************************************************************************)
(* bee.py: the methods of class Bee.                                        *)
(***************************************************************************)
\* Bee.___resolve_signer (bee.py:190-208) on an instance whose constructor
\* was given the signer `default` (NoSigner: self.signer was never assigned)
Bee_resolve_signer(default, signer) ==
    IF signer # NoSigner THEN [status |-> "ValueError", signer |-> NoSigner]
    ELSE IF default = NoSigner THEN [status |-> "AttributeError", signer |-> NoSigner]
    ELSE [status |-> "ok", signer |-> default]

\* Bee.make_soc_writer (bee.py:1273-1299): the writer's owner and the signer
\* its upload closure holds
make_soc_writer(default, signer) ==
    LET canonical_signer == Bee_resolve_signer(default, signer) IN
    IF canonical_signer.status # "ok"
    THEN [status |-> canonical_signer.status, owner |-> "none", signer |-> NoSigner]
    ELSE [status |-> "ok", owner |-> canonical_signer.signer.address,
          signer |-> canonical_signer.signer]

\* SOCWriter.upload(batch, identifier, data) of such a writer: the closure
\* `def upload():` (bee.py:1295-1296) takes no arguments
SOCWriter_upload(st, writer, identifier, payload) ==
    [store |-> st, res |-> Raise("TypeError", <<>>)]

\* Python truth value of the index argument: None and 0 are false
Falsy(index) == index = NoIndex \/ index = 0

\* variant: the reader is bound to the instance's signer, not to the owner
Bee_make_feed_reader_default_owner(feed_type, topic, owner) ==
    FeedReader(feed_type, make_topic(topic),
               make_hex_eth_address([form |-> "hex", a |-> "o1"]))

\* variant: the builtin `type` is passed on instead of feed_type
Bee_make_feed_reader_builtin_type(feed_type, topic, owner) ==
    FeedReader(BuiltinType, make_topic(topic), make_hex_eth_address(owner))

\* Bee.__make_feed_reader (bee.py:160-188), request options None
Bee_make_feed_reader(feed_type, topic, owner) ==
    FeedReader(feed_type, make_topic(topic), make_hex_eth_address(owner))

\* variant: the test of the index is inverted (`if index:`)
is_feed_retrievable_inverted(st, feed_type, owner, topic, index) ==
    IF ~Falsy(index)
    THEN LET r == ReaderDownload(st,
                     Bee_make_feed_reader(BuiltinType, make_topic(topic),
                                          make_eth_address(owner)), <<>>)
         IN IF Raised(r) THEN r ELSE Res("True", NoIndex, "", r.queries)
    ELSE IF feed_type # SEQUENCE
         THEN Raise(UnsupportedOperationError, <<>>)
         ELSE are_all_sequential_feeds_update_retrievable(
                  st, make_eth_address(owner), make_topic(topic), 0)

\* the reader of the latest check (bee.py:841): the builtin `type` is passed
\* where feed_type is meant
latest_check_reader(feed_type, topic, owner) ==
    Bee_make_feed_reader(BuiltinType, topic, owner)

\* Bee.is_feed_retrievable (bee.py:810-856)
is_feed_retrievable(st, feed_type, owner, topic, index) ==
    LET canonical_owner == make_eth_address(owner)
        canonical_topic == make_topic(topic)
    IN IF Falsy(index)
       THEN LET r == ReaderDownload(st,
                        latest_check_reader(feed_type, canonical_topic, canonical_owner),
                        <<>>)
            IN IF Raised(r) THEN r    \* except BeeError as e: raise e
               ELSE Res("True", NoIndex, "", r.queries)
       ELSE IF feed_type # SEQUENCE
            THEN Raise(UnsupportedOperationError, <<>>)
            ELSE are_all_sequential_feeds_update_retrievable(
                     st, canonical_owner, canonical_topic, index)

\* Bee.make_feed_reader (bee.py:1081-1115): self.resolve_signer is not a
\* method of Bee (the class defines ___resolve_signer), so the call raises
make_feed_reader(feed_type, topic, signer) ==
    IF ~IsFeedType(feed_type) THEN [status |-> "TypeError"]
    ELSE [status |-> "AttributeError"]

\* Bee.make_feed_writer (bee.py:1117-1147): likewise
make_feed_writer(feed_type, topic, signer) ==
    IF ~IsFeedType(feed_type) THEN [status |-> "TypeError"]
    ELSE [status |-> "AttributeError"]

\* the options of the JSON feed calls: None, or an object with the fields
\* address and signer (bee.py:1197-1200) of which each may be None
JsonFeedOptionFields == {"type", "signer", "address"}
JsonFeedOptionArgs ==
    {[none |-> TRUE, address |-> "none", signer |-> NoSigner]}
        \cup {[none |-> FALSE, address |-> a, signer |-> s] :
                    a \in Owners \cup {"none"}, s \in SignerArgs}

\* Bee.get_json_feed (bee.py:1188-1246) on an instance with the signer
\* `default`: the owner the feed is read for, and the outcome
get_json_feed(st, default, topic, options) ==
    IF options.none                         \* options.type of None
    THEN [owner |-> "none", res |-> Raise("AttributeError", <<>>)]
    ELSE IF "singer" \notin JsonFeedOptionFields    \* options.singer (bee.py:1229)
    THEN [owner |-> "none", res |-> Raise("AttributeError", <<>>)]
    ELSE IF options.signer # NoSigner /\ options.address # "none"
    THEN [owner |-> "none", res |-> Raise("BeeError", <<>>)]
    ELSE LET resolved == Bee_resolve_signer(default, options.signer)
             failed == options.address = "none" /\ resolved.status # "ok"
             address == IF options.address # "none" THEN options.address
                        ELSE resolved.signer.address
             reader == make_feed_reader(SEQUENCE, make_topic(topic), address)
         IN IF failed       \* neither error is a BeeError: not caught
            THEN [owner |-> "none", res |-> Raise(resolved.status, <<>>)]
            ELSE IF reader.status # "ok"
            THEN [owner |-> address, res |-> Raise(reader.status, <<>>)]
            ELSE [owner |-> address, res |-> ReaderDownload(st, reader.reader, <<>>)]

\* assert_request_options (utils/type.py:151-188); strict: the pydantic model
\* BeeRequestOptions refuses a negative timeout or retry of a dict
assert_request_options(options, strict) ==
    IF options.kind = "None" THEN "ok"
    ELSE IF options.kind # "dict" THEN "TypeError"
    ELSE IF strict /\ (options.timeout = -1 \/ options.retry = -1) THEN "ValidationError"
    ELSE IF Set(options.retry) /\ options.retry < 0 THEN "BeeArgumentError"
    ELSE IF Set(options.timeout) /\ options.timeout < 0 THEN "BeeArgumentError"
    ELSE "ok"

\* assert_upload_options (utils/type.py:191-224)
assert_upload_options(value, strict) ==
    IF assert_request_options(value, strict) # "ok"
    THEN assert_request_options(value, strict)
    ELSE IF value.kind # "dict" THEN "ValidationError"  \* UploadOptions.model_validate(None)
    ELSE IF Set(value.tag) /\ value.tag <= 0 THEN "BeeArgumentError"
    ELSE "ok"

\* Bee.__init__ (bee.py:104-140) with the options argument
Bee_init(options, strict) ==
    IF Truthy(options) /\ options.kind # "dict" THEN "TypeError"
    ELSE IF Truthy(options) /\ strict /\ options.timeout = -1 THEN "ValidationError"
    ELSE "ok"

\* Request options as the modules get them: the node's URL, timeout, retry
BeeUrl == "http://localhost:1633"
RequestOptions(baseURL, timeout, retry) ==
    [baseURL |-> baseURL, timeout |-> timeout, retry |-> retry]
\* a value handed over as request options, as it is
AsGiven(options) == RequestOptions("none", options.timeout, options.retry)

\* self.request_options as Bee.__init__ leaves it (bee.py:125-140): the URL,
\* and with options their timeout or 300
Bee_request_options(options) ==
    RequestOptions(BeeUrl,
                   IF Truthy(options)
                   THEN (IF options.timeout # Absent THEN options.timeout ELSE 300)
                   ELSE Absent,
                   Absent)

\* Bee.__get_request_options_for_call (bee.py:142-158): {**defaults, **options}
\* for true options, else the defaults.  mapping: whether BeeRequestOptions
\* objects can be unpacked with ** (the class is not among the sources)
Bee_get_request_options_for_call(defaults, options, mapping) ==
    IF Truthy(options)
    THEN IF mapping
         THEN [status |-> "ok",
               used |-> RequestOptions(defaults.baseURL,
                           IF options.timeout # Absent THEN options.timeout
                           ELSE defaults.timeout,
                           IF options.retry # Absent THEN options.retry
                           ELSE defaults.retry)]
         ELSE [status |-> "TypeError", used |-> defaults]
    ELSE [status |-> "ok", used |-> defaults]

\* the request options Bee.upload_data hands to bytes_api.upload (bee.py:253):
\* its argument, not merged with the defaults
upload_data_request_options(defaults, request_options) == AsGiven(request_options)

\* Bee.upload_data (bee.py:225-253): the outcome before bytes_api.upload
upload_data_check(options, request_options, strict) ==
    IF Truthy(options) THEN assert_upload_options(options, strict) ELSE "ok"

\* int(chars) of Python for a string of characters: an optional sign and
\* decimal digits, else ValueError
Digits == <<"0", "1", "2", "3", "4", "5", "6", "7", "8", "9">>
IsDigit(c) == \E k \in 1..10 : Digits[k] = c
DigitValue(c) == (CHOOSE k \in 1..10 : Digits[k] = c) - 1
RECURSIVE DecimalValue(_)
DecimalValue(chars) ==
    IF chars = <<>> THEN 0
    ELSE DecimalValue(SubSeq(chars, 1, Len(chars) - 1)) * 10
            + DigitValue(chars[Len(chars)])
IsDecimal(chars) == chars # <<>> /\ \A k \in 1..Len(chars) : IsDigit(chars[k])
ParseInt(chars) ==
    IF IsDecimal(chars) THEN [status |-> "ok", value |-> DecimalValue(chars)]
    ELSE IF chars # <<>> /\ Head(chars) \in {"-", "+"} /\ IsDecimal(Tail(chars))
         THEN [status |-> "ok",
               value |-> IF Head(chars) = "-" THEN 0 - DecimalValue(Tail(chars))
                         ELSE DecimalValue(Tail(chars))]
         ELSE [status |-> "ValueError", value |-> 0]

\* make_tag_uid (utils/type.py:46-79) with assert_non_negative_integer
\* (utils/type.py:26-43)
make_tag_uid(tag_uid) ==
    LET falsy == \/ tag_uid.kind = "None"
                 \/ tag_uid.kind = "int" /\ tag_uid.value = 0
                 \/ tag_uid.kind = "str" /\ tag_uid.chars = <<>>
        int_value == ParseInt(tag_uid.chars)
    IN IF falsy THEN [status |-> "TypeError", uid |-> 0]
       ELSE IF tag_uid.kind = "Tag" THEN [status |-> "ok", uid |-> tag_uid.value]
       ELSE IF tag_uid.kind = "int"
            THEN (IF tag_uid.value < 0 THEN [status |-> "ValueError", uid |-> 0]
                  ELSE [status |-> "ok", uid |-> tag_uid.value])
       ELSE IF tag_uid.kind = "str"
            THEN (IF int_value.status # "ok" THEN [status |-> "TypeError", uid |-> 0]
                  ELSE IF int_value.value < 0 THEN [status |-> "TypeError", uid |-> 0]
                  ELSE [status |-> "ok", uid |-> int_value.value])
       ELSE [status |-> "TypeError", uid |-> 0]

\* Bee.check_connection (bee.py:1301-1317): what status_api.check_connection
\* returns or raises
check_connection(answer) == IF answer = "ok" THEN "True" ELSE answer

\* Bee.is_connected (bee.py:1319-1335): no return statement; an HTTPError is
\* raised again as HTTPError, any other error is not caught
is_connected(answer) ==
    IF answer = "ok" THEN "None"
    ELSE IF answer = "HTTPError" THEN "HTTPError"
    ELSE answer

\* variant: the upper limit is compared with >=
upload_chunk_check_off_by_one(isBytes, len, options) ==
    IF ~isBytes THEN "TypeError"
    ELSE IF len < SPAN_SIZE THEN "BeeArgumentError"
    ELSE IF len >= CHUNK_SIZE + SPAN_SIZE THEN "BeeArgumentError"
    ELSE IF options # "None" THEN "TypeError"
    ELSE "ok"

\* Bee.upload_chunk (bee.py:300-336): the outcome before the request is sent
upload_chunk_check(isBytes, len, options) ==
    IF ~isBytes THEN "TypeError"
    ELSE IF len < SPAN_SIZE THEN "BeeArgumentError"
    ELSE IF len > CHUNK_SIZE + SPAN_SIZE THEN "BeeArgumentError"
    ELSE IF options # "None" THEN "TypeError"  \* assert_upload_options(1)
    ELSE "ok"

(***************************************************************************)
(* State machine.                                                           *)
(***************************************************************************)
(***************************************************************************)
(* spec 5: the prefix scan of the retrievability check with one task per   *)
(* index.                                                                   *)
(***************************************************************************)
\* checks[i + 1]: the state of the existence check of index i ("pending",
\* "ok", "missing", "cancelled"); order: the indices in the order in which
\* their checks completed
ScanState(status, owner, topic, index, checks, order) ==
    [status |-> status, owner |-> owner, topic |-> topic, index |-> index,
     checks |-> checks, order |-> order]
NoScan == ScanState("idle", "o1", "t1", 0, <<>>, <<>>)

\* variant: true as soon as no completed check has failed
ScanResult_eager(checks) ==
    IF \E k \in 1..Len(checks) : checks[k] = "missing" THEN "False"
    ELSE IF \E k \in 1..Len(checks) : checks[k] = "ok" THEN "True"
    ELSE "pending"

\* the logical AND over the range: false with one failed check, true with
\* every check completed successfully, else not decided yet
ScanResult(checks) ==
    IF \E k \in 1..Len(checks) : checks[k] = "missing" THEN "False"
    ELSE IF \A k \in 1..Len(checks) : checks[k] = "ok" THEN "True"
    ELSE "pending"

(***************************************************************************)
(* Postal service: Bee.pss_send, Bee.pss_subscribe, Bee.pss_receive.       *)
(***************************************************************************)
\* Values handed over as topic: a string, a Topic, or an integer.  is_str:
\* isinstance(topic, str); for a Topic it depends on whether the class Topic
\* (bee_py.types.type, not among the sources) derives from str
PssTopic(kind, is_str) == [kind |-> kind, is_str |-> is_str]
PssTopicArgs ==
    {PssTopic("str", TRUE), PssTopic("Topic", TRUE), PssTopic("Topic", FALSE),
     PssTopic("int", FALSE)}

\* bee.py:895-897, 930-932, 1003-1005:
\* `if not isinstance(topic, Topic) or not isinstance(topic, str): raise TypeError`
pss_topic_check(topic) ==
    IF topic.kind # "Topic" \/ ~topic.is_str THEN "TypeError" ELSE "ok"

\* Bee.pss_send (bee.py:858-905) without request options; the node accepts
pss_send(topic, recipient) ==
    IF pss_topic_check(topic) # "ok" THEN Raise("TypeError", <<>>)
    ELSE Res("None", NoIndex, "", <<>>)

\* Bee.pss_receive (bee.py:970-1034): the two checks, the rest is commented out
pss_receive(topic, timeout_is_int) ==
    IF pss_topic_check(topic) # "ok" THEN Raise("TypeError", <<>>)
    ELSE IF ~timeout_is_int THEN Raise("TypeError", <<>>)
    ELSE Res("None", NoIndex, "", <<>>)

\* pc: where the coroutine pss_subscribe is; ws: the websocket; cancelled: the
\* flag of the closure cancel; closes: calls of ws.close(); cancels: calls of
\* cancel; delivered: calls of handler.onMessage; late: those of them after
\* the first cancel; errors: calls of handler.onError
PssState(pc, topic, ws) ==
    [pc |-> pc, topic |-> topic, ws |-> ws, cancelled |-> FALSE, closes |-> 0,
     cancels |-> 0, delivered |-> 0, late |-> 0, errors |-> 0]
NoSubscription == PssState("idle", PssTopic("str", TRUE), "none")

\* who can call cancel: the handler has been given the subscription with a
\* message or an error, or pss_subscribe has returned it
SubscriptionHeld == pss.delivered > 0 \/ pss.errors > 0 \/ pss.pc = "returned"

Init ==
    /\ store = EmptyStore
    /\ tags = {}
    /\ last = [op |-> "init", res |-> Res("ok", NoIndex, "", <<>>)]
    /\ pss = NoSubscription
    /\ scan = NoScan

\* a feed writer publishes the update (signer.address, topic, index)
Publish(signer, topic, ft, index, payload) ==
    LET address == PublishAddress(ft, topic, index, signer)
        soc == PublishedSOC(ft, topic, index, payload, signer)
        outcome == PutOutcome(store, address, soc)
    IN /\ store' = PutStore(store, address, soc)
       /\ last' = [op |-> "publish", ft |-> ft, owner |-> signer.address,
                   topic |-> topic, index |-> index, payload |-> payload,
                   res |-> IF outcome = "ack"
                           THEN Res("ok", index, payload, <<address>>)
                           ELSE Raise(outcome, <<address>>)]
       /\ UNCHANGED <<tags, pss, scan>>

\* the network loses a chunk (garbage collection of the node)
Remove(address) ==
    /\ Exists(store, address)
    /\ store' = Delete(store, address)
    /\ last' = [op |-> "remove", res |-> Res("ok", NoIndex, "", <<>>)]
    /\ UNCHANGED <<tags, pss, scan>>

\* bytes signed by somebody else are served at a sequence feed address
Forge(owner, topic, index) ==
    LET address == FeedUpdateAddress(SEQUENCE, owner, topic, index)
        soc == PublishedSOC(SEQUENCE, topic, index, "a", SignerOf(OtherOwner(owner)))
    IN /\ ~Exists(store, address)
       /\ ~StoreFull(store)
       /\ store' = Put(store, address, soc)
       /\ last' = [op |-> "forge", res |-> Res("ok", NoIndex, "", <<>>)]
       /\ UNCHANGED <<tags, pss, scan>>

\* variant: the check drops a chunk it has looked at
IsFeedRetrievable_writes(ft, owner, topic, index) ==
    /\ last' = [op |-> "is_feed_retrievable", ft |-> ft, owner |-> owner.a,
                topic |-> topic.t, index |-> index,
                reader |-> latest_check_reader(ft, make_topic(topic),
                                               make_eth_address(owner)),
                res |-> is_feed_retrievable(store, ft, owner, topic, index)]
    /\ store' = IF DOMAIN store = {} THEN store
                ELSE Delete(store, CHOOSE a \in DOMAIN store : TRUE)
    /\ UNCHANGED <<tags, pss, scan>>

\* bee.is_feed_retrievable(feed_type, owner, topic, index); reader: the feed
\* reader the latest check makes
IsFeedRetrievable(ft, owner, topic, index) ==
    /\ last' = [op |-> "is_feed_retrievable", ft |-> ft, owner |-> owner.a,
                topic |-> topic.t, index |-> index,
                reader |-> latest_check_reader(ft, make_topic(topic),
                                               make_eth_address(owner)),
                res |-> is_feed_retrievable(store, ft, owner, topic, index)]
    /\ UNCHANGED <<store, tags, pss, scan>>

\* reader.download at an index: fetch_at(owner, topic, type, index)
FetchAt(ft, owner, topic, index) ==
    /\ last' = [op |-> "fetch_at", ft |-> ft, owner |-> owner.a,
                topic |-> topic.t, index |-> index,
                res |-> ReaderDownload(store, Bee_make_feed_reader(ft, topic, owner),
                                       <<index>>)]
    /\ UNCHANGED <<store, tags, pss, scan>>

\* reader.download without index: fetch_latest(owner, topic, SEQUENCE)
FetchLatest(owner, topic) ==
    /\ last' = [op |-> "fetch_latest", ft |-> SEQUENCE, owner |-> owner.a,
                topic |-> topic.t,
                res |-> ReaderDownload(store,
                            Bee_make_feed_reader(SEQUENCE, topic, owner), <<>>)]
    /\ UNCHANGED <<store, tags, pss, scan>>

\* bee.make_feed_writer(type, topic, signer).upload(index, payload)
BeeWriterPublish(signer, topic, ft, index, payload) ==
    LET w == make_feed_writer(ft, [form |-> "hex", t |-> topic], signer)
        address == PublishAddress(ft, topic, index, signer)
        soc == PublishedSOC(ft, topic, index, payload, signer)
    IN /\ store' = IF w.status = "ok" THEN PutStore(store, address, soc) ELSE store
       /\ last' = [op |-> "bee_publish", ft |-> ft, owner |-> signer.address,
                   topic |-> topic, index |-> index, payload |-> payload,
                   res |-> IF w.status # "ok" THEN Raise(w.status, <<>>)
                           ELSE IF PutOutcome(store, address, soc) = "ack"
                                THEN Res("ok", index, payload, <<address>>)
                                ELSE Raise("TransportError", <<address>>)]
       /\ UNCHANGED <<tags, pss, scan>>

\* bee.make_feed_reader(type, topic, signer).download(index)
BeeReaderFetchAt(signer, topic, ft, index) ==
    LET r == make_feed_reader(ft, [form |-> "hex", t |-> topic], signer)
    IN /\ last' = [op |-> "bee_fetch_at", ft |-> ft, owner |-> signer.address,
                   topic |-> topic, index |-> index,
                   res |-> IF r.status # "ok" THEN Raise(r.status, <<>>)
                           ELSE ReaderDownload(store, r.reader, <<index>>)]
       /\ UNCHANGED <<store, tags, pss, scan>>

\* Bee(url, {"signer": default}).get_json_feed(topic, options)
GetJsonFeed(default, topic, options) ==
    LET got == get_json_feed(store, default, [form |-> "hex", t |-> topic], options)
    IN /\ last' = [op |-> "get_json_feed", default |-> default, topic |-> topic,
                   options |-> options, owner |-> got.owner, res |-> got.res]
       /\ UNCHANGED <<store, tags, pss, scan>>

\* bee.upload_chunk(postage_batch_id, data, options): chunk_api.upload sends
\* the chunk to the node, which stores it under its content address
UploadChunk(isBytes, len, options) ==
    LET check == upload_chunk_check(isBytes, len, options)
        data == <<"data", len>>
        address == ChunkAddress(data)
        bytes == [chunk |-> data]
    IN /\ store' = IF check = "ok" THEN PutStore(store, address, bytes) ELSE store
       /\ last' = [op |-> "upload_chunk", isBytes |-> isBytes, len |-> len,
                   options |-> options,
                   res |-> IF check # "ok" THEN Raise(check, <<>>)
                           ELSE IF PutOutcome(store, address, bytes) = "ack"
                                THEN Res("ok", NoIndex, "", <<address>>)
                                ELSE Raise("TransportError", <<address>>)]
       /\ UNCHANGED <<tags, pss, scan>>

\* a single-owner chunk is built, signed and stored
SocUpload(signer, identifier, payload) ==
    LET up == upload_single_owner_chunk_data(store, signer, identifier, payload)
    IN /\ store' = up.store
       /\ last' = [op |-> "soc_upload", owner |-> signer.address,
                   identifier |-> identifier, payload |-> payload, res |-> up.res]
       /\ UNCHANGED <<tags, pss, scan>>

\* the values one field of a stored SOC can be changed to
TamperValues(soc, owner, field) ==
    IF field = "signature"
    THEN {Sign(SignerOf(OtherOwner(owner)), soc.signature.digest)}
            \cup {Sign(SignerOf(owner), SOCDigest(id, soc.wrapped)) :
                        id \in SocIdentifiers \ {soc.identifier}}
            \cup {Sign(SignerOf(owner), SOCDigest(soc.identifier, ChunkAddress(p))) :
                        p \in {q \in Payloads : ChunkAddress(q) # soc.wrapped}}
    ELSE IF field = "identifier" THEN SocIdentifiers \ {soc.identifier}
    ELSE {ChunkAddress(p) : p \in Payloads} \ {soc.wrapped}

\* the network serves a signed SOC with one of its fields changed
SocTamper(owner, identifier, field, value) ==
    LET address == SOCAddress(identifier, owner) IN
    /\ Exists(store, address)
    /\ VerifySOC(store[address], address)
    /\ value \in TamperValues(store[address], owner, field)
    /\ store' = [store EXCEPT ![address] = [@ EXCEPT ![field] = value]]
    /\ last' = [op |-> "soc_tamper", owner |-> owner, identifier |-> identifier,
                field |-> field, original |-> store[address],
                res |-> Res("ok", NoIndex, "", <<>>)]
    /\ UNCHANGED <<tags, pss, scan>>

\* a single-owner chunk is fetched and verified
SocDownload(owner, identifier) ==
    /\ last' = [op |-> "soc_download", owner |-> owner, identifier |-> identifier,
                res |-> download_single_owner_chunk(store, owner, identifier)]
    /\ UNCHANGED <<store, tags, pss, scan>>

\* Bee(url, {"signer": default}).make_soc_writer(signer).upload(batch,
\* identifier, data)
BeeSocWriterUpload(default, signer, identifier, payload) ==
    LET w == make_soc_writer(default, signer)
        up == SOCWriter_upload(store, w, identifier, payload)
    IN /\ store' = IF w.status = "ok" THEN up.store ELSE store
       /\ last' = [op |-> "bee_soc_upload", default |-> default, signer |-> signer,
                   identifier |-> identifier, payload |-> payload, writer |-> w,
                   res |-> IF w.status = "ok" THEN up.res ELSE Raise(w.status, <<>>)]
       /\ UNCHANGED <<tags, pss, scan>>

Next ==
    \/ \E s \in Writers, t \in Topics, ft \in FeedTypes, p \in Payloads :
         \E i \in IndicesOf(ft) : Publish(s, t, ft, i, p)
    \/ \E a \in DOMAIN store : Remove(a)
    \/ \E s \in Writers, t \in Topics, i \in SeqIndices : Forge(s.address, t, i)
    \/ \E ft \in FeedTypes, o \in OwnerArgs, t \in TopicArgs,
          i \in {NoIndex} \cup SeqIndices : IsFeedRetrievable(ft, o, t, i)
    \/ \E ft \in FeedTypes, o \in OwnerArgs, t \in TopicArgs :
         \E i \in IndicesOf(ft) : FetchAt(ft, o, t, i)
    \/ \E o \in OwnerArgs, t \in TopicArgs : FetchLatest(o, t)

\* the public reader and writer factories of Bee over the same store
NextApi ==
    \/ \E s \in Writers, t \in Topics, ft \in FeedTypes, p \in Payloads :
         \E i \in IndicesOf(ft) : Publish(s, t, ft, i, p)
    \/ \E a \in DOMAIN store : Remove(a)
    \/ \E s \in Signers, t \in Topics, ft \in FeedTypes, p \in Payloads :
         \E i \in IndicesOf(ft) : BeeWriterPublish(s, t, ft, i, p)
    \/ \E s \in Signers, t \in Topics, ft \in FeedTypes :
         \E i \in IndicesOf(ft) : BeeReaderFetchAt(s, t, ft, i)
    \/ \E d \in SignerArgs, t \in Topics, o \in JsonFeedOptionArgs : GetJsonFeed(d, t, o)

Spec == Init /\ [][Next]_vars
SpecApi == Init /\ [][NextApi]_vars

\* chunk uploads
\* Bee(url, request_options).upload_data(batch, data, options,
\* request_options): bytes_api.upload sends the data to the node
UploadData(options, request_options, strict) ==
    LET made == Bee_init(request_options, strict)
        check == IF made # "ok" THEN made
                 ELSE upload_data_check(options, request_options, strict)
        data == <<"bytes", 1>>
        address == ChunkAddress(data)
        bytes == [chunk |-> data]
    IN /\ store' = IF check = "ok" THEN PutStore(store, address, bytes) ELSE store
       /\ last' = [op |-> "upload_data", options |-> options,
                   request_options |-> request_options,
                   defaults |-> Bee_request_options(request_options),
                   used |-> upload_data_request_options(
                                Bee_request_options(request_options), request_options),
                   res |-> IF check # "ok" THEN Raise(check, <<>>)
                           ELSE IF PutOutcome(store, address, bytes) = "ack"
                                THEN Res("ok", NoIndex, "", <<address>>)
                                ELSE Raise("TransportError", <<address>>)]
       /\ UNCHANGED <<tags, pss, scan>>

NextUpload ==
    \/ \E isBytes \in BOOLEAN, len \in ChunkLengths, options \in UploadOptionArgs :
         UploadChunk(isBytes, len, options)
    \/ \E a \in DOMAIN store : Remove(a)

SpecUpload == Init /\ [][NextUpload]_vars

\* single-owner chunks: the codec over the transport, and Bee's SOC writer
\* the node makes a tag
CreateTag(uid) ==
    /\ uid \notin tags
    /\ tags' = tags \cup {uid}
    /\ last' = [op |-> "create_tag", res |-> Res("ok", NoIndex, "", <<>>)]
    /\ UNCHANGED <<store, pss, scan>>

\* bee.delete_tag(uid): tag_api.delete_tag asks the node to delete the tag
DeleteTag(arg) ==
    LET tag_uid == make_tag_uid(arg) IN
    /\ tags' = IF tag_uid.status = "ok" THEN tags \ {tag_uid.uid} ELSE tags
    /\ last' = [op |-> "delete_tag", arg |-> arg, tag_uid |-> tag_uid,
                res |-> IF tag_uid.status # "ok" THEN Raise(tag_uid.status, <<>>)
                        ELSE IF tag_uid.uid \in tags THEN Res("ok", NoIndex, "", <<>>)
                        ELSE Raise("HTTPError", <<>>)]
    /\ UNCHANGED <<store, pss, scan>>

\* bee.is_connected() when the node gives the answer
IsConnected(answer) ==
    /\ last' = [op |-> "is_connected", answer |-> answer,
                res |-> Res(is_connected(answer), NoIndex, "", <<>>)]
    /\ UNCHANGED <<store, tags, pss, scan>>

\* bee.check_connection() when the node gives the answer
CheckConnection(answer) ==
    /\ last' = [op |-> "check_connection", answer |-> answer,
                res |-> Res(check_connection(answer), NoIndex, "", <<>>)]
    /\ UNCHANGED <<store, tags, pss, scan>>

\* tags and the connection check
NextNode ==
    \/ \E uid \in TagUids : CreateTag(uid)
    \/ \E arg \in TagUidArgs : DeleteTag(arg)
    \/ \E answer \in NodeAnswers : IsConnected(answer)
    \/ \E answer \in NodeAnswers : CheckConnection(answer)

SpecNode == Init /\ [][NextNode]_vars

\* Bee(url, init_options).check_connection(options) with a node that answers
\* (bee.py:1301-1317)
CheckConnectionOptions(init_options, options, strict, mapping) ==
    LET made == Bee_init(init_options, strict)
        defaults == Bee_request_options(init_options)
        check == IF made # "ok" THEN made ELSE assert_request_options(options, strict)
        call == Bee_get_request_options_for_call(defaults, options, mapping)
    IN /\ last' = [op |-> "check_connection_options", options |-> NoOptions,
                   request_options |-> options, defaults |-> defaults,
                   used |-> call.used,
                   res |-> IF check # "ok" THEN Raise(check, <<>>)
                           ELSE IF call.status # "ok" THEN Raise(call.status, <<>>)
                           ELSE Res(check_connection("ok"), NoIndex, "", <<>>)]
       /\ UNCHANGED <<store, tags, pss, scan>>

\* uploads of data, and calls with request options
NextData ==
    \/ \E options \in UploadDataOptionArgs, request_options \in RequestOptionArgs,
          strict \in BOOLEAN : UploadData(options, request_options, strict)
    \/ \E init_options \in RequestOptionArgs, options \in RequestOptionArgs,
          strict \in BOOLEAN, mapping \in BOOLEAN :
             CheckConnectionOptions(init_options, options, strict, mapping)
    \/ \E a \in DOMAIN store : Remove(a)

SpecData == Init /\ [][NextData]_vars

\* bee.pss_send(batch, topic, target, data, recipient)
PssSend(topic, recipient) ==
    /\ last' = [op |-> "pss_send", topic |-> topic, recipient |-> recipient,
                timeout_is_int |-> TRUE, res |-> pss_send(topic, recipient)]
    /\ UNCHANGED <<store, tags, pss, scan>>

\* bee.pss_receive(topic, timeout_msec)
PssReceive(topic, timeout_is_int) ==
    /\ last' = [op |-> "pss_receive", topic |-> topic, recipient |-> "None",
                timeout_is_int |-> timeout_is_int,
                res |-> pss_receive(topic, timeout_is_int)]
    /\ UNCHANGED <<store, tags, pss, scan>>

\* bee.pss_subscribe(topic, handler) is called (bee.py:930-955): the topic
\* check, then the websocket is opened and the receive loop is entered
PssSubscribe(topic) ==
    /\ pss.pc # "receiving"
    /\ IF pss_topic_check(topic) # "ok"
       THEN /\ pss' = PssState("raised", topic, "none")
            /\ last' = [op |-> "pss_subscribe", topic |-> topic, recipient |-> "None",
                        timeout_is_int |-> TRUE, res |-> Raise("TypeError", <<>>)]
       ELSE /\ pss' = PssState("receiving", topic, "open")
            /\ last' = [op |-> "pss_subscribe", topic |-> topic, recipient |-> "None",
                        timeout_is_int |-> TRUE,
                        res |-> Res("receiving", NoIndex, "", <<>>)]
    /\ UNCHANGED <<store, tags, scan>>

\* the loop of pss_subscribe receives a message of len bytes (bee.py:956-961,
\* on_message 945-948): a message that is not empty goes to handler.onMessage
PssMessage(len) ==
    /\ pss.pc = "receiving"
    /\ pss.ws = "open"
    /\ pss.delivered < MaxMessages
    /\ pss' = IF len > 0
              THEN [pss EXCEPT !.delivered = @ + 1,
                               !.late = IF pss.cancelled THEN @ + 1 ELSE @]
              ELSE pss
    /\ UNCHANGED <<store, tags, last, scan>>

\* variant: cancel without the flag, every call closes the websocket
PssCancel_always_closes ==
    /\ SubscriptionHeld
    /\ pss.cancels < MaxCancels
    /\ pss' = [pss EXCEPT !.cancels = @ + 1, !.cancelled = TRUE, !.ws = "closed",
                          !.closes = @ + 1]
    /\ UNCHANGED <<store, tags, last, scan>>

\* subscription.cancel() (bee.py:934-941): the first call sets the flag and
\* closes the websocket
PssCancel ==
    /\ SubscriptionHeld
    /\ pss.cancels < MaxCancels
    /\ pss' = IF ~pss.cancelled
              THEN [pss EXCEPT !.cancels = @ + 1, !.cancelled = TRUE,
                               !.ws = "closed", !.closes = @ + 1]
              ELSE [pss EXCEPT !.cancels = @ + 1]
    /\ UNCHANGED <<store, tags, last, scan>>

\* the node or the network closes the connection
PssConnectionClosed ==
    /\ pss.ws = "open"
    /\ pss' = [pss EXCEPT !.ws = "closed"]
    /\ UNCHANGED <<store, tags, last, scan>>

\* ws.recv() on the closed websocket raises ConnectionClosed, the loop ends
\* and pss_subscribe returns the subscription (bee.py:962-963, 967)
PssReturnClosed ==
    /\ pss.pc = "receiving"
    /\ pss.ws = "closed"
    /\ pss' = [pss EXCEPT !.pc = "returned"]
    /\ last' = [op |-> "pss_subscribe", topic |-> pss.topic, recipient |-> "None",
                timeout_is_int |-> TRUE,
                res |-> Res("subscription", NoIndex, "", <<>>)]
    /\ UNCHANGED <<store, tags, scan>>

\* another exception in the loop (bee.py:964-967, on_error 950-953):
\* handler.onError unless cancelled, and pss_subscribe returns
PssReturnError ==
    /\ pss.pc = "receiving"
    /\ pss.ws = "open"
    /\ pss' = [pss EXCEPT !.pc = "returned",
                          !.errors = IF pss.cancelled THEN @ ELSE @ + 1]
    /\ last' = [op |-> "pss_subscribe", topic |-> pss.topic, recipient |-> "None",
                timeout_is_int |-> TRUE,
                res |-> Res("subscription", NoIndex, "", <<>>)]
    /\ UNCHANGED <<store, tags, scan>>

\* the postal service
NextPss ==
    \/ \E topic \in PssTopicArgs, recipient \in {"None", "key"} : PssSend(topic, recipient)
    \/ \E topic \in PssTopicArgs, timeout_is_int \in BOOLEAN :
          PssReceive(topic, timeout_is_int)
    \/ \E topic \in PssTopicArgs : PssSubscribe(topic)
    \/ \E len \in {0, 1} : PssMessage(len)
    \/ PssCancel
    \/ PssConnectionClosed
    \/ PssReturnClosed
    \/ PssReturnError

SpecPss == Init /\ [][NextPss]_vars

\* is_retrievable(owner, topic, SEQUENCE, index) starts one existence check
\* per index 0..index
ScanStart(owner, topic, index) ==
    /\ scan.status # "pending"
    /\ scan' = ScanState("pending", owner, topic, index,
                          [k \in 1..(index + 1) |-> "pending"], <<>>)
    /\ UNCHANGED <<store, tags, last, pss>>

\* the existence check of index i completes with the answer of the transport
ScanCheck(i) ==
    /\ scan.status = "pending"
    /\ i <= scan.index
    /\ scan.checks[i + 1] = "pending"
    /\ scan' = [scan EXCEPT
                  !.checks[i + 1] =
                      IF Exists(store, FeedUpdateAddress(SEQUENCE, scan.owner, scan.topic, i))
                      THEN "ok" ELSE "missing",
                  !.order = Append(@, i)]
    /\ UNCHANGED <<store, tags, last, pss>>

\* the scan returns once the result is decided and cancels the checks that
\* are still outstanding
ScanReturn ==
    /\ scan.status = "pending"
    /\ ScanResult(scan.checks) # "pending"
    /\ scan' = [scan EXCEPT
                  !.status = ScanResult(scan.checks),
                  !.checks = [k \in 1..Len(scan.checks) |->
                                 IF scan.checks[k] = "pending" THEN "cancelled"
                                 ELSE scan.checks[k]]]
    /\ UNCHANGED <<store, tags, last, pss>>

\* prefix scans with parallel checks while the feed is written and chunks
\* are lost
NextScan ==
    \/ \E s \in Writers, t \in Topics, i \in SeqIndices : Publish(s, t, SEQUENCE, i, "a")
    \/ \E a \in DOMAIN store : Remove(a)
    \/ \E s \in Writers, t \in Topics, i \in SeqIndices : ScanStart(s.address, t, i)
    \/ \E i \in SeqIndices : ScanCheck(i)
    \/ ScanReturn

SpecScan == Init /\ [][NextScan]_vars

\* an index is encoded for a feed identifier and the bytes are decoded
EncodeDecode(ft, x) ==
    LET bytes == EncodeIndexWord(ft, x) IN
    /\ last' = [op |-> "codec", ft |-> ft, index |-> x, bytes |-> bytes,
                decoded |-> DecodeIndexWord(ft, bytes),
                res |-> Res("ok", NoIndex, "", <<>>)]
    /\ UNCHANGED <<store, tags, pss, scan>>

NextCodec == \E ft \in FeedTypes : \E x \in WordsOf(ft) : EncodeDecode(ft, x)

SpecCodec == Init /\ [][NextCodec]_vars

NextSoc ==
    \/ \E s \in Writers, id \in SocIdentifiers, p \in Payloads : SocUpload(s, id, p)
    \/ \E o \in Owners, id \in SocIdentifiers,
          f \in {"signature", "identifier", "wrapped"} :
         \E v \in (IF Exists(store, SOCAddress(id, o))
                    THEN TamperValues(store[SOCAddress(id, o)], o, f) ELSE {}) :
            SocTamper(o, id, f, v)
    \/ \E o \in Owners, id \in SocIdentifiers : SocDownload(o, id)
    \/ \E d \in SignerArgs, s \in SignerArgs, id \in SocIdentifiers, p \in Payloads :
         BeeSocWriterUpload(d, s, id, p)
    \/ \E a \in DOMAIN store : Remove(a)

SpecSoc == Init /\ [][NextSoc]_vars

(***************************************************************************)
(* Vocabulary of the properties.                                            *)
(***************************************************************************)
\* address of sequence update i of the feed (owner, topic)
SeqAddress(owner, topic, i) == FeedUpdateAddress(SEQUENCE, owner, topic, i)

\* a chunk exists at the address of every index 0..n of the feed
PrefixExists(st, owner, topic, n) ==
    \A i \in 0..n : SeqAddress(owner, topic, i) \in DOMAIN st

\* the bytes stored at the address are a SOC signed by the owner's key over
\* the stored identifier and wrapped address
SignedBy(st, address, owner) ==
    /\ address \in DOMAIN st
    /\ st[address].signature.key = SignerOf(owner).key
    /\ st[address].signature.digest = <<st[address].identifier, st[address].wrapped>>
    /\ address = [h |-> "soc", identifier |-> st[address].identifier, owner |-> owner]

\* sequence update i of the feed can be fetched: present and authentic
Retrievable(st, owner, topic, i) == SignedBy(st, SeqAddress(owner, topic, i), owner)

IsCall(op) == last.op = op
IsSeqCall(op) == last.op = op /\ last.ft = SEQUENCE

(***************************************************************************)
(* C1: for a sequence feed and a target index N, is_feed_retrievable       *)
(* returns true if and only if a chunk exists at the address of every      *)
(* index 0..N.  (Fails for N = 0.)                                          *)
(***************************************************************************)
C1_RetrievableIffPrefixExists ==
    (IsSeqCall("is_feed_retrievable") /\ last.index # NoIndex) =>
        last.res.status =
            (IF PrefixExists(store, last.owner, last.topic, last.index)
             THEN "True" ELSE "False")

(***************************************************************************)
(* C2: called with no target index, is_feed_retrievable returns a boolean: *)
(* true when the latest update can be fetched, false (no error raised)     *)
(* when it is absent.                                                       *)
(***************************************************************************)
C2_NoIndexReturnsBoolean ==
    (IsCall("is_feed_retrievable") /\ last.index = NoIndex) =>
        last.res.status =
            (IF Retrievable(store, last.owner, last.topic, 0) THEN "True" ELSE "False")

(***************************************************************************)
(* C3: called with a target index and a feed type other than SEQUENCE,     *)
(* is_feed_retrievable fails with the unsupported-operation error and      *)
(* sends no query to the transport.  (Fails for index 0.)                  *)
(***************************************************************************)
C3_NonSequenceUnsupported ==
    (IsCall("is_feed_retrievable") /\ last.index # NoIndex /\ last.ft # SEQUENCE) =>
        /\ last.res.status = UnsupportedOperationError
        /\ last.res.queries = <<>>

(***************************************************************************)
(* C4: when the chunk of index N >= 1 of a sequence feed is a published    *)
(* update and the chunk of some index i < N is gone from the store,        *)
(* is_feed_retrievable(.., N) is false while fetch_at(.., N) succeeds with *)
(* the payload published at N.                                              *)
(***************************************************************************)
BrokenChain(st, owner, topic, n) ==
    /\ n >= 1
    /\ Retrievable(st, owner, topic, n)
    /\ \E i \in 0..(n - 1) : SeqAddress(owner, topic, i) \notin DOMAIN st

C4_BrokenChainStillFetchable ==
    /\ (IsSeqCall("is_feed_retrievable") /\ last.index # NoIndex
            /\ BrokenChain(store, last.owner, last.topic, last.index)) =>
          /\ last.res.status = "False"
          /\ LET r == ReaderDownload(store,
                         Bee_make_feed_reader(SEQUENCE, [form |-> "hex", t |-> last.topic],
                                              [form |-> "hex", a |-> last.owner]),
                         <<last.index>>)
             IN r.status = "ok"
                /\ r.payload = store[SeqAddress(last.owner, last.topic, last.index)].chunk
    /\ (IsSeqCall("fetch_at")
            /\ BrokenChain(store, last.owner, last.topic, last.index)) =>
          /\ last.res.status = "ok"
          /\ last.res.payload = store[SeqAddress(last.owner, last.topic, last.index)].chunk
          /\ is_feed_retrievable(store, SEQUENCE, [form |-> "hex", a |-> last.owner],
                 [form |-> "hex", t |-> last.topic], last.index).status = "False"

C4_Witness ==
    /\ IsSeqCall("is_feed_retrievable")
    /\ last.index = MaxIndex
    /\ BrokenChain(store, last.owner, last.topic, last.index)
    /\ PrefixExists(store, last.owner, last.topic, 0)
    /\ last.res.status = "False"

(***************************************************************************)
(* C5: prefix closure: if is_feed_retrievable(.., SEQUENCE, N) is true     *)
(* then is_feed_retrievable(.., SEQUENCE, M) is true for every M < N in    *)
(* the same store state.  (Fails for M = 0.)                                *)
(***************************************************************************)
C5_PrefixClosure ==
    (IsSeqCall("is_feed_retrievable") /\ last.index # NoIndex
        /\ last.res.status = "True") =>
        \A m \in 0..(last.index - 1) :
            is_feed_retrievable(store, SEQUENCE, [form |-> "hex", a |-> last.owner],
                [form |-> "hex", t |-> last.topic], m).status = "True"

(***************************************************************************)
(* C6: whenever at least one update of a sequence feed is retrievable,     *)
(* fetch_latest returns the highest index whose chunk is retrievable and   *)
(* that chunk's payload.  (Fails when an index below it is missing.)       *)
(***************************************************************************)
HighestRetrievable(st, owner, topic) ==
    CHOOSE n \in SeqIndices :
        /\ Retrievable(st, owner, topic, n)
        /\ \A m \in SeqIndices : Retrievable(st, owner, topic, m) => m <= n

C7_MissingChunkEndsFeed ==
    (IsSeqCall("fetch_latest") /\ last.res.status = "ok") =>
        \A i \in 0..(MaxIndex + 1) :
            SeqAddress(last.owner, last.topic, i) \notin DOMAIN store
                => last.res.index < i

C7_Witness ==
    /\ IsSeqCall("fetch_latest")
    /\ last.res.status = "ok"
    /\ \E i \in SeqIndices, j \in SeqIndices :
          /\ i < j
          /\ SeqAddress(last.owner, last.topic, i) \notin DOMAIN store
          /\ Retrievable(store, last.owner, last.topic, j)

(***************************************************************************)
(* C8: upload_chunk accepts chunk data exactly when its length is between  *)
(* 8 and 4104 bytes; outside that range a size error is raised and no      *)
(* request is sent to the node.                                             *)
(***************************************************************************)
C8_ChunkSizeBound ==
    (IsCall("upload_chunk") /\ last.isBytes /\ last.options = "None") =>
        LET sent == last.res.queries # <<>>
            address == [h |-> "bmt", data |-> <<"data", last.len>>]
        IN /\ sent <=> (last.len >= 8 /\ last.len <= 4104)
           /\ (last.len < 8 \/ last.len > 4104) =>
                 /\ last.res.status = "BeeArgumentError"
                 /\ address \notin DOMAIN store
           /\ sent => \/ last.res.status = "ok" /\ address \in DOMAIN store
                      \/ last.res.status = "TransportError"
                           /\ Cardinality(DOMAIN store) >= MaxChunks

C8_Witness ==
    /\ IsCall("upload_chunk")
    /\ last.len = 4104
    /\ last.res.status = "ok"
    /\ [h |-> "bmt", data |-> <<"data", 4104>>] \in DOMAIN store

(***************************************************************************)
(* C9: after the update (owner, topic, type, index) was published with a   *)
(* payload, fetch_at through the reader made by Bee.make_feed_reader for   *)
(* the signer's address returns exactly that payload.  (The reader is      *)
(* never made.)                                                             *)
(***************************************************************************)
C9_PublishThenFetchAt ==
    LET address == FeedUpdateAddress(last.ft, last.owner, last.topic, last.index)
    IN (IsCall("bee_fetch_at") /\ SignedBy(store, address, last.owner)) =>
          /\ last.res.status = "ok"
          /\ last.res.payload = store[address].chunk

(***************************************************************************)
(* C10: fetch_at fails with ChunkNotFoundError when no chunk is stored at  *)
(* the derived address, with SignatureMismatchError when the stored bytes  *)
(* are not a SOC of that owner, and returns a payload only for a stored    *)
(* chunk that passes verification: that chunk's payload.                    *)
(***************************************************************************)
C10_FetchAtOutcomes ==
    IsCall("fetch_at") =>
        LET address == FeedUpdateAddress(last.ft, last.owner, last.topic, last.index)
        IN /\ address \notin DOMAIN store => last.res.status = "ChunkNotFoundError"
           /\ (address \in DOMAIN store /\ ~SignedBy(store, address, last.owner))
                 => last.res.status = "SignatureMismatchError"
           /\ last.res.status = "ok" <=> SignedBy(store, address, last.owner)
           /\ last.res.status = "ok" => last.res.payload = store[address].chunk
           /\ last.res.status \in {"ok", "ChunkNotFoundError", "SignatureMismatchError"}

C10_Witness ==
    /\ IsCall("fetch_at")
    /\ last.res.status = "SignatureMismatchError"
    /\ FeedUpdateAddress(last.ft, last.owner, last.topic, last.index) \in DOMAIN store

(***************************************************************************)
(* C11: SOC round trip: for every signer key, identifier and chunk, the    *)
(* SOC built and stored through the SOC writer of Bee.make_soc_writer      *)
(* verifies and yields the signer's own address.  (No SOC is ever built    *)
(* through that writer.)                                                    *)
(***************************************************************************)
C11_SocRoundTrip ==
    (IsCall("bee_soc_upload") /\ (last.signer # NoSigner \/ last.default # NoSigner)) =>
        LET signer == IF last.signer # NoSigner THEN last.signer ELSE last.default
            got == download_single_owner_chunk(store, signer.address, last.identifier)
        IN /\ last.res.status \in {"ok", "TransportError"}
           /\ last.res.status = "ok" =>
                 /\ got.status = "ok"
                 /\ got.owner = signer.address

(***************************************************************************)
(* C12: tamper detection: when the signature, the identifier or the        *)
(* wrapped chunk address of a signed SOC produced by build is changed,     *)
(* verification fails with SignatureMismatchError; a download returns an   *)
(* owner only for bytes that are a SOC signed by that owner.               *)
(***************************************************************************)
C12_TamperDetected ==
    /\ IsCall("soc_tamper") =>
          download_single_owner_chunk(store, last.owner, last.identifier).status
              = "SignatureMismatchError"
    /\ IsCall("soc_download") =>
          LET address == [h |-> "soc", identifier |-> last.identifier,
                          owner |-> last.owner]
          IN /\ last.res.status = "ok" =>
                   /\ SignedBy(store, address, last.owner)
                   /\ last.res.owner = last.owner
             /\ (address \in DOMAIN store /\ ~SignedBy(store, address, last.owner))
                   => last.res.status = "SignatureMismatchError"

C12_Witness ==
    /\ IsCall("soc_download")
    /\ last.res.status = "SignatureMismatchError"
    /\ LET soc == store[SOCAddress(last.identifier, last.owner)]
       IN /\ soc.signature.key = SignerOf(last.owner).key
          /\ soc.signature.digest[2] # soc.wrapped
          /\ soc.signature.digest[1] = soc.identifier

(***************************************************************************)
(* C13: index codec round trip: for every sequence index up to 2^64 - 1    *)
(* and every epoch (base, level), decoding the 32-byte encoding returns    *)
(* the index, and distinct indices of one scheme have distinct encodings;  *)
(* the encodings of the feed addresses are these encodings.                *)
(***************************************************************************)
C13_CodecRoundTrip ==
    /\ IsCall("codec") =>
          /\ Len(last.bytes) = 32
          /\ last.decoded = last.index
          /\ \A y \in WordsOf(last.ft) :
                y # last.index => EncodeIndexWord(last.ft, y) # last.bytes
    /\ \A i \in 0..(MaxIndex + 1) :
          EncodeSequenceIndex(i) = EncodeIndexWord(SEQUENCE, Limbs(i))
    /\ \A e \in EpochIndices :
          EncodeEpochIndex(e) = EncodeIndexWord(EPOCH, <<Limbs(e[1]), e[2]>>)

C13_Witness ==
    /\ IsCall("codec")
    /\ last.ft = SEQUENCE
    /\ last.index = <<U16 - 1, U16 - 1, U16 - 1, U16 - 1>>
    /\ last.bytes = Zeros(24) \o [k \in 1..8 |-> 255]
    /\ last.decoded = last.index

(***************************************************************************)
(* C16: signer resolution returns the signer passed to the call when one   *)
(* is passed, otherwise the default signer of the instance, and raises     *)
(* BeeError when there is neither.  (A passed signer raises ValueError;    *)
(* with neither, AttributeError.)                                           *)
(***************************************************************************)
C16_SignerResolution ==
    IsCall("bee_soc_upload") =>
        /\ last.signer # NoSigner =>
              last.writer.status = "ok" /\ last.writer.signer = last.signer
        /\ (last.signer = NoSigner /\ last.default # NoSigner) =>
              last.writer.status = "ok" /\ last.writer.signer = last.default
        /\ (last.signer = NoSigner /\ last.default = NoSigner) =>
              last.writer.status = "BeeError"

(***************************************************************************)
(* C14: a publish operation never changes the bytes stored at an occupied  *)
(* address, also not a publish to the same index with another payload;     *)
(* what a publish adds is stored at the address of the published index,    *)
(* which was free.                                                          *)
(***************************************************************************)
C14_PublishedSocImmutable ==
    [][last'.op = "publish" =>
          /\ \A a \in DOMAIN store : a \in DOMAIN store' /\ store'[a] = store[a]
          /\ store' # store =>
                LET address == FeedUpdateAddress(last'.ft, last'.owner, last'.topic,
                                                 last'.index)
                IN /\ address \notin DOMAIN store
                   /\ DOMAIN store' = DOMAIN store \cup {address}]_vars

C14_Witness ==
    /\ IsCall("publish")
    /\ last.res.status = "TransportError"
    /\ LET address == FeedUpdateAddress(last.ft, last.owner, last.topic, last.index)
       IN /\ SignedBy(store, address, last.owner)
          /\ store[address].chunk # last.payload

(***************************************************************************)
(* C15: get_json_feed reads the feed of options.address when it is given,  *)
(* else of options.signer, else of the default signer of the instance; it  *)
(* raises BeeError when options.signer and options.address are both given  *)
(* and when none of the three is there.  (It raises AttributeError for     *)
(* every options value.)                                                    *)
(***************************************************************************)
C15_JsonFeedOwnerPrecedence ==
    (IsCall("get_json_feed") /\ ~last.options.none) =>
        LET address == last.options.address
            signer == last.options.signer
        IN /\ (signer # NoSigner /\ address # "none") => last.res.status = "BeeError"
           /\ (signer = NoSigner /\ address # "none") => last.owner = address
           /\ (signer # NoSigner /\ address = "none") => last.owner = signer.address
           /\ (signer = NoSigner /\ address = "none" /\ last.default # NoSigner)
                 => last.owner = last.default.address
           /\ (signer = NoSigner /\ address = "none" /\ last.default = NoSigner)
                 => last.res.status = "BeeError"

(***************************************************************************)
(* C17: for request options that are neither None nor a dict, or a dict    *)
(* with a negative timeout or retry, constructing a Bee with them and      *)
(* calling upload_data with them raises (TypeError for the wrong type,     *)
(* BeeArgumentError for the negative number) and no upload request is      *)
(* sent.  (Fails for [] and for a negative retry.)                          *)
(***************************************************************************)
ValidRequestOptions(v) ==
    \/ v.kind = "None"
    \/ v.kind = "dict" /\ v.timeout \in {Absent} \cup Nat /\ v.retry \in {Absent} \cup Nat

C17_RequestOptionsRejected ==
    (IsCall("upload_data") /\ last.options = NoOptions
        /\ ~ValidRequestOptions(last.request_options)) =>
        /\ Raised(last.res)
        /\ last.res.queries = <<>>
        /\ last.request_options.kind # "dict" => last.res.status = "TypeError"
        /\ last.request_options.kind = "dict" =>
              last.res.status \in {"BeeArgumentError", "ValidationError"}

(***************************************************************************)
(* C18: upload_data raises for upload options that are not a dict          *)
(* (TypeError, also for the empty list) and for a negative tag             *)
(* (BeeArgumentError), and sends no upload request then.  (Fails for [].)  *)
(***************************************************************************)
ValidUploadOptions(v) ==
    \/ v.kind = "None"
    \/ v.kind = "dict" /\ v.tag \in {Absent} \cup Nat

C18_UploadOptionsRejected ==
    (IsCall("upload_data") /\ last.request_options = NoOptions
        /\ ~ValidUploadOptions(last.options)) =>
        /\ Raised(last.res)
        /\ last.res.queries = <<>>
        /\ last.options.kind # "dict" => last.res.status = "TypeError"
        /\ last.options.kind = "dict" => last.res.status = "BeeArgumentError"

(***************************************************************************)
(* C19: make_tag_uid returns the uid of a Tag object, every non-negative   *)
(* integer including 0, and the value of every string of decimal digits;   *)
(* it raises TypeError for every other input.  (0 raises TypeError, a      *)
(* negative integer ValueError.)                                            *)
(***************************************************************************)
DecimalOf == (<<"0">> :> 0) @@ (<<"5">> :> 5) @@ (<<"1", "2">> :> 12)

C19_MakeTagUid ==
    IsCall("delete_tag") =>
        LET arg == last.arg
            expected ==
                IF arg.kind = "Tag" THEN [status |-> "ok", uid |-> arg.value]
                ELSE IF arg.kind = "int" /\ arg.value >= 0
                     THEN [status |-> "ok", uid |-> arg.value]
                ELSE IF arg.kind = "str" /\ arg.chars \in DOMAIN DecimalOf
                     THEN [status |-> "ok", uid |-> DecimalOf[arg.chars]]
                ELSE [status |-> "TypeError", uid |-> 0]
        IN last.tag_uid = expected

(***************************************************************************)
(* C20: is_connected returns True when the node answers the connection     *)
(* check and False when it does not; it raises nothing.  (It returns None  *)
(* or raises.)                                                              *)
(***************************************************************************)
C20_IsConnectedBoolean ==
    IsCall("is_connected") =>
        last.res.status = (IF last.answer = "ok" THEN "True" ELSE "False")

(***************************************************************************)
(* C21: for a sequence feed and every target index N, is_feed_retrievable  *)
(* completes with a boolean; a missing chunk among 0..N gives false and   *)
(* no error is raised.  (Fails for N = 0.)                                  *)
(***************************************************************************)
C21_AlwaysBoolean ==
    (IsSeqCall("is_feed_retrievable") /\ last.index # NoIndex) =>
        /\ last.res.status \in {"True", "False"}
        /\ ~PrefixExists(store, last.owner, last.topic, last.index)
              => last.res.status = "False"

C26_IndexZeroIsAnIndex ==
    (IsCall("is_feed_retrievable") /\ last.index = 0) =>
        IF last.ft = SEQUENCE
        THEN /\ last.res.queries = <<SeqAddress(last.owner, last.topic, 0)>>
             /\ last.res.status =
                    (IF SeqAddress(last.owner, last.topic, 0) \in DOMAIN store
                     THEN "True" ELSE "False")
        ELSE last.res.status = UnsupportedOperationError

(***************************************************************************)
(* C27: the feed reader that is_feed_retrievable makes for the latest      *)
(* check is bound to the feed type, the topic and the owner that were      *)
(* passed to the method.  (It is bound to the builtin `type`.)             *)
(***************************************************************************)
C27_ReaderBoundToArguments ==
    (IsCall("is_feed_retrievable") /\ last.index = NoIndex) =>
        /\ last.reader.type = last.ft
        /\ last.reader.topic.t = last.topic
        /\ last.reader.owner.a = last.owner

(***************************************************************************)
(* C29: is_feed_retrievable, fetch_latest and fetch_at never write: the    *)
(* store is the same after the call, also when the call fails, and the     *)
(* outcome of a call is a function of its arguments and the store alone.   *)
(***************************************************************************)
ReadOps == {"is_feed_retrievable", "fetch_at", "fetch_latest"}

OutcomeOf(call, st) ==
    LET owner == [form |-> "hex", a |-> call.owner]
        topic == [form |-> "hex", t |-> call.topic]
    IN IF call.op = "is_feed_retrievable"
       THEN is_feed_retrievable(st, call.ft, owner, topic, call.index)
       ELSE IF call.op = "fetch_at"
       THEN ReaderDownload(st, Bee_make_feed_reader(call.ft, topic, owner), <<call.index>>)
       ELSE ReaderDownload(st, Bee_make_feed_reader(SEQUENCE, topic, owner), <<>>)

MergedOptions(defaults, options) ==
    RequestOptions(defaults.baseURL,
                   IF options.timeout # Absent THEN options.timeout ELSE defaults.timeout,
                   IF options.retry # Absent THEN options.retry ELSE defaults.retry)

Sent(res) == res.status \in {"ok", "True", "TransportError"}

C28_DefaultsMergedWithCallOptions ==
    (last.op \in {"upload_data", "check_connection_options"}) =>
        /\ Sent(last.res) =>
              last.used = MergedOptions(last.defaults, last.request_options)
        /\ (last.op = "check_connection_options" /\ last.defaults.timeout \in {Absent} \cup Nat
                /\ ValidRequestOptions(last.request_options)) => Sent(last.res)

(***************************************************************************)
(* C22: when pss_subscribe hands the subscription to its caller, the       *)
(* connection has not closed yet, and after a cancel no message goes to    *)
(* the handler.  (Fails: pss_subscribe returns only after the receive      *)
(* loop has ended, as a rule because the connection has closed.)           *)
(***************************************************************************)
C22_SubscriptionReturnedWhileActive ==
    [][/\ (pss.pc = "receiving" /\ pss'.pc = "returned") => pss'.ws = "open"
       /\ pss'.late = 0]_vars

(***************************************************************************)
(* C23: pss_send, pss_subscribe and pss_receive (with an integer timeout)  *)
(* raise TypeError exactly when the topic is neither a string nor a        *)
(* Topic.  (Fails for every string.)                                        *)
(***************************************************************************)
PssOps == {"pss_send", "pss_subscribe", "pss_receive"}

C23_TopicTypeCheck ==
    (last.op \in PssOps /\ last.timeout_is_int) =>
        (last.res.status = "TypeError" <=> last.topic.kind \notin {"str", "Topic"})

(***************************************************************************)
(* C30: cancel is idempotent: the first call of cancel on a subscription   *)
(* closes the websocket, once, and every later call changes nothing.       *)
(***************************************************************************)
C30_CancelIdempotent ==
    [][pss'.cancels = pss.cancels + 1 =>
          IF pss.cancels = 0
          THEN /\ pss'.closes = 1
               /\ pss'.ws = "closed"
               /\ pss'.cancelled
          ELSE /\ pss' = [pss EXCEPT !.cancels = @ + 1]
               /\ pss.closes = 1]_vars

C30_Witness ==
    /\ pss.cancels = MaxCancels
    /\ pss.closes = 1
    /\ pss.delivered > 0

(***************************************************************************)
(* C25: with the existence checks of indices 0..N running as parallel      *)
(* tasks, the scan returns true only when every one of the N+1 checks has  *)
(* completed successfully, in whatever order they completed; with one      *)
(* failed check the result is not true, and false is returned only with a  *)
(* failed check.                                                            *)
(***************************************************************************)
C25_ParallelScanIsConjunction ==
    LET n == Len(scan.checks) IN
    /\ scan.status = "True" =>
          /\ n = scan.index + 1
          /\ \A k \in 1..n : scan.checks[k] = "ok"
          /\ Len(scan.order) = n
    /\ (\E k \in 1..n : scan.checks[k] = "missing") => scan.status \in {"pending", "False"}
    /\ scan.status = "False" => \E k \in 1..n : scan.checks[k] = "missing"

C25_Witness ==
    /\ scan.status = "True"
    /\ scan.index = MaxIndex
    /\ scan.order[1] = MaxIndex
    /\ scan.order[MaxIndex + 1] = 0

====
